---- MODULE Spec2Model ----
(***************************************************************************)
(* Model of imugi's convergence controller: the pure decision functions of *)
(* src/core/analyzer.ts (categorizeIteration, suggestStrategy), the score  *)
(* blend of src/core/comparator.ts (computeCompositeScore), the backup     *)
(* helpers of src/core/patcher.ts and the iteration loop runBoulderLoop of *)
(* src/agent/loop.ts.                                                      *)
(*                                                                         *)
(* Scores are fixed-point numbers in hundredths (0.95 is 95); SSIM and     *)
(* vision inputs are in tenths, so that 0.4*ssim + 0.6*vision is the exact *)
(* integer 4*ssim + 6*vision in hundredths.                                *)
(* A nullable value (number | null, T | undefined) is a sequence of length *)
(* 0 or 1.                                                                 *)
(***************************************************************************)
EXTENDS Integers, Sequences, FiniteSets, TLC

VARIABLES
    fnIn,           \* arguments of the pure function under check
    fnOut,          \* its return value, <<>> before the call
    config,         \* ImugiConfig: comparison.* and timeouts.overall
    pc,             \* position of runBoulderLoop
    iteration,      \* loop counter of runBoulderLoop
    history,        \* IterationRecord[]
    previousScore,  \* number | null
    strategy,       \* PatchStrategy of the next patch
    currentCode,    \* Map<string,string> held in memory
    filePaths,      \* keys of currentCode as of the last assignment
    disk,           \* files under projectDir
    backups,        \* .imugi/backups/<k>: directory k -> files
    now,            \* Date.now() - startTime, in units of the budget
    round,          \* locals of the round in progress
    result,         \* BoulderLoopResult, <<>> while running or rejected
    rendered,       \* ghost: rendered[k] = files on disk when round k was captured
    options,        \* BoulderLoopOptions: existingCode
    emitted,        \* the IterationStates passed to onProgress, in order
    generated,      \* ghost: the code generateInitialCode returned, <<>> if none
    written         \* ghost: written[k] = the code written by the patch of round k and its strategy

fnVars == <<fnIn, fnOut>>

loopVars == <<config, pc, iteration, history, previousScore, strategy, currentCode,
              filePaths, disk, backups, now, round, result, rendered, options, emitted,
              generated, written>>

vars == <<fnIn, fnOut, config, pc, iteration, history, previousScore, strategy,
          currentCode, filePaths, disk, backups, now, round, result, rendered, options,
          emitted, generated, written>>

(***************************************************************************)
(* Bounds of the model.                                                    *)
(***************************************************************************)
MaxHist == 4

MaxIter == 5

MaxClock == 2

\* how far below 0 and above 1 the scores given to computeCompositeScore go, in tenths
MaxOver == 5

\* the largest minRegionSize given to findDiffRegions, in pixels
MaxMinRegionSize == 3

\* the largest width of the image pairs given to pixelDiff, in pixels
MaxSide == 2

\* the most messages and stream chunks the agent state holds
MaxMessages == 2

MaxChunks == 1

(***************************************************************************)
(* Program constants (src/config/schema.ts defaults).                      *)
(***************************************************************************)
DefaultThreshold == 95

DefaultImprovementThreshold == 1

DefaultPatchSwitchThreshold == 70

Null == <<>>

Some(x) == <<x>>

IsNull(x) == x = <<>>

Val(x) == x[1]

Abs(x) == IF x < 0 THEN -x ELSE x

Min2(a, b) == IF a < b THEN a ELSE b

Max2(a, b) == IF a > b THEN a ELSE b

PatchStrategy == {"full_regen", "surgical_patch"}

(***************************************************************************)
(* src/core/analyzer.ts                                                    *)
(***************************************************************************)
\* the stalled test made before the regressed test
categorizeIterationStalledFirst(currentScore, prevScore, threshold, improvementThreshold) ==
    IF IsNull(prevScore) THEN "first"
    ELSE IF currentScore >= threshold THEN "achieved"
    ELSE IF currentScore - Val(prevScore) > improvementThreshold THEN "improved"
    ELSE IF Abs(currentScore - Val(prevScore)) <= improvementThreshold THEN "stalled"
    ELSE IF currentScore < Val(prevScore) THEN "regressed"
    ELSE "stalled"

\* the threshold is tested before the missing previous score
categorizeIterationAchievedFirst(currentScore, prevScore, threshold, improvementThreshold) ==
    IF currentScore >= threshold THEN "achieved"
    ELSE IF IsNull(prevScore) THEN "first"
    ELSE IF currentScore - Val(prevScore) > improvementThreshold THEN "improved"
    ELSE IF currentScore < Val(prevScore) THEN "regressed"
    ELSE "stalled"

categorizeIteration(currentScore, prevScore, threshold, improvementThreshold) ==
    IF IsNull(prevScore) THEN "first"
    ELSE IF currentScore >= threshold THEN "achieved"
    ELSE IF currentScore - Val(prevScore) > improvementThreshold THEN "improved"
    ELSE IF currentScore < Val(prevScore) THEN "regressed"
    ELSE IF Abs(currentScore - Val(prevScore)) <= improvementThreshold THEN "stalled"
    ELSE "stalled"

\* history.slice(-3)
Slice3(h) == SubSeq(h, Max2(1, Len(h) - 2), Len(h))

\* recentHistory.length >= 3 && recentHistory.every(r => r.category === 'stalled')
AllStalled(h) ==
    /\ Len(Slice3(h)) >= 3
    /\ \A i \in 1..Len(Slice3(h)) : Slice3(h)[i].category = "stalled"

RECURSIVE ReduceBest(_, _, _)
\* history.reduce((best, r) => (r.score > best.score ? r : best), history[0])
ReduceBest(h, i, best) ==
    IF i > Len(h) THEN best
    ELSE ReduceBest(h, i + 1, IF h[i].score > best.score THEN h[i] ELSE best)

RECURSIVE ReduceBestLastOnTie(_, _, _)
\* the reduce with >= in place of >: the last of equal best scores wins
ReduceBestLastOnTie(h, i, best) ==
    IF i > Len(h) THEN best
    ELSE ReduceBestLastOnTie(h, i + 1, IF h[i].score >= best.score THEN h[i] ELSE best)

BestIterationLastOnTie(h) == ReduceBestLastOnTie(h, 1, h[1])

BestIteration(h) == ReduceBest(h, 1, h[1])

Alternate(s) == IF s = "full_regen" THEN "surgical_patch" ELSE "full_regen"

Recommendation(strat, stop, reason, rollback, target) ==
    [strategy |-> strat, shouldStop |-> stop, stopReason |-> reason,
     shouldRollback |-> rollback, rollbackTo |-> target]

\* the iteration cap tested before the threshold
suggestStrategyCapFirst(currentScore, h, cfg) ==
    IF Len(h) >= cfg.maxIterations
    THEN Recommendation("surgical_patch", TRUE, Some("max_iterations"), FALSE, Null)
    ELSE IF currentScore >= cfg.threshold
    THEN Recommendation("surgical_patch", TRUE, Some("success"), FALSE, Null)
    ELSE IF AllStalled(h)
    THEN Recommendation("surgical_patch", TRUE, Some("converged"), FALSE, Null)
    ELSE IF Len(h) > 0 /\ h[Len(h)].score > currentScore
    THEN Recommendation(Alternate(h[Len(h)].strategy), FALSE, Null, TRUE,
                        Some(BestIteration(h).iteration))
    ELSE Recommendation(IF currentScore < cfg.patchSwitchThreshold
                        THEN "full_regen" ELSE "surgical_patch",
                        FALSE, Null, FALSE, Null)

\* the stalled test made before the iteration cap
suggestStrategyStalledFirst(currentScore, h, cfg) ==
    IF currentScore >= cfg.threshold
    THEN Recommendation("surgical_patch", TRUE, Some("success"), FALSE, Null)
    ELSE IF AllStalled(h)
    THEN Recommendation("surgical_patch", TRUE, Some("converged"), FALSE, Null)
    ELSE IF Len(h) >= cfg.maxIterations
    THEN Recommendation("surgical_patch", TRUE, Some("max_iterations"), FALSE, Null)
    ELSE IF Len(h) > 0 /\ h[Len(h)].score > currentScore
    THEN Recommendation(Alternate(h[Len(h)].strategy), FALSE, Null, TRUE,
                        Some(BestIteration(h).iteration))
    ELSE Recommendation(IF currentScore < cfg.patchSwitchThreshold
                        THEN "full_regen" ELSE "surgical_patch",
                        FALSE, Null, FALSE, Null)

\* the regression test made before the stalled test
suggestStrategyRegressionFirst(currentScore, h, cfg) ==
    IF currentScore >= cfg.threshold
    THEN Recommendation("surgical_patch", TRUE, Some("success"), FALSE, Null)
    ELSE IF Len(h) >= cfg.maxIterations
    THEN Recommendation("surgical_patch", TRUE, Some("max_iterations"), FALSE, Null)
    ELSE IF Len(h) > 0 /\ h[Len(h)].score > currentScore
    THEN Recommendation(Alternate(h[Len(h)].strategy), FALSE, Null, TRUE,
                        Some(BestIteration(h).iteration))
    ELSE IF AllStalled(h)
    THEN Recommendation("surgical_patch", TRUE, Some("converged"), FALSE, Null)
    ELSE Recommendation(IF currentScore < cfg.patchSwitchThreshold
                        THEN "full_regen" ELSE "surgical_patch",
                        FALSE, Null, FALSE, Null)

\* <= in place of < against patchSwitchThreshold
suggestStrategySwitchInclusive(currentScore, h, cfg) ==
    IF currentScore >= cfg.threshold
    THEN Recommendation("surgical_patch", TRUE, Some("success"), FALSE, Null)
    ELSE IF Len(h) >= cfg.maxIterations
    THEN Recommendation("surgical_patch", TRUE, Some("max_iterations"), FALSE, Null)
    ELSE IF AllStalled(h)
    THEN Recommendation("surgical_patch", TRUE, Some("converged"), FALSE, Null)
    ELSE IF Len(h) > 0 /\ h[Len(h)].score > currentScore
    THEN Recommendation(Alternate(h[Len(h)].strategy), FALSE, Null, TRUE,
                        Some(BestIteration(h).iteration))
    ELSE Recommendation(IF currentScore <= cfg.patchSwitchThreshold
                        THEN "full_regen" ELSE "surgical_patch",
                        FALSE, Null, FALSE, Null)

\* a score equal to the last record's counts as a regression
suggestStrategyRegressionInclusive(currentScore, h, cfg) ==
    IF currentScore >= cfg.threshold
    THEN Recommendation("surgical_patch", TRUE, Some("success"), FALSE, Null)
    ELSE IF Len(h) >= cfg.maxIterations
    THEN Recommendation("surgical_patch", TRUE, Some("max_iterations"), FALSE, Null)
    ELSE IF AllStalled(h)
    THEN Recommendation("surgical_patch", TRUE, Some("converged"), FALSE, Null)
    ELSE IF Len(h) > 0 /\ h[Len(h)].score >= currentScore
    THEN Recommendation(Alternate(h[Len(h)].strategy), FALSE, Null, TRUE,
                        Some(BestIteration(h).iteration))
    ELSE Recommendation(IF currentScore < cfg.patchSwitchThreshold
                        THEN "full_regen" ELSE "surgical_patch",
                        FALSE, Null, FALSE, Null)

suggestStrategy(currentScore, h, cfg) ==
    IF currentScore >= cfg.threshold
    THEN Recommendation("surgical_patch", TRUE, Some("success"), FALSE, Null)
    ELSE IF Len(h) >= cfg.maxIterations
    THEN Recommendation("surgical_patch", TRUE, Some("max_iterations"), FALSE, Null)
    ELSE IF AllStalled(h)
    THEN Recommendation("surgical_patch", TRUE, Some("converged"), FALSE, Null)
    ELSE IF Len(h) > 0 /\ h[Len(h)].score > currentScore
    THEN Recommendation(Alternate(h[Len(h)].strategy), FALSE, Null, TRUE,
                        Some(BestIteration(h).iteration))
    ELSE Recommendation(IF currentScore < cfg.patchSwitchThreshold
                        THEN "full_regen" ELSE "surgical_patch",
                        FALSE, Null, FALSE, Null)

buildIterationRecord(iter, score, strat, files, category) ==
    [iteration |-> iter, score |-> score, strategy |-> strat,
     filesModified |-> files, category |-> category]

(***************************************************************************)
(* src/core/comparator.ts                                                  *)
(***************************************************************************)
Clamp(x) == Max2(0, Min2(100, x))

\* the ssim+vision formula returned without the clamp
computeCompositeScoreUnclamped(ssim, layout, vision) ==
    IF ~IsNull(vision) /\ ~IsNull(layout)
    THEN Clamp(ssim * 3 + Val(layout) * 3 + Val(vision) * 4)
    ELSE IF ~IsNull(vision) THEN ssim * 4 + Val(vision) * 6
    ELSE IF ~IsNull(layout) THEN Clamp(ssim * 5 + Val(layout) * 5)
    ELSE Clamp(ssim * 10)

\* presence tested by truthiness: a score of 0 counts as absent
computeCompositeScoreTruthy(ssim, layout, vision) ==
    LET has(x) == ~IsNull(x) /\ Val(x) # 0
    IN  IF has(vision) /\ has(layout)
        THEN Clamp(ssim * 3 + Val(layout) * 3 + Val(vision) * 4)
        ELSE IF has(vision) THEN Clamp(ssim * 4 + Val(vision) * 6)
        ELSE IF has(layout) THEN Clamp(ssim * 5 + Val(layout) * 5)
        ELSE Clamp(ssim * 10)

\* ssim, layout, vision in tenths (layout, vision nullable); result in hundredths
computeCompositeScore(ssim, layout, vision) ==
    IF ~IsNull(vision) /\ ~IsNull(layout)
    THEN Clamp(ssim * 3 + Val(layout) * 3 + Val(vision) * 4)
    ELSE IF ~IsNull(vision) THEN Clamp(ssim * 4 + Val(vision) * 6)
    ELSE IF ~IsNull(layout) THEN Clamp(ssim * 5 + Val(layout) * 5)
    ELSE Clamp(ssim * 10)

\* analyzeDifferences: the report's score switches its suggestedStrategy at 0.7
ReportSwitchThreshold == 70

\* analyzeDifferences(...).suggestedStrategy: the vision score if there is one,
\* else the comparison's own composite score, which is made of the SSIM alone
reportSuggestedStrategy(ssim, vision) ==
    LET score == IF IsNull(vision) THEN computeCompositeScore(ssim, Null, Null)
                 ELSE Val(vision) * 10
    IN  IF score < ReportSwitchThreshold THEN "full_regen" ELSE "surgical_patch"

(***************************************************************************)
(* findDiffRegions (src/src/core/comparator.ts).  A diff image is a width,  *)
(* a height and the red channel of its pixels: a function from the pixels   *)
(* that are not black to their red value.  diffIntensity is kept as the     *)
(* fraction num/den the code divides.                                       *)
(***************************************************************************)
gridSize == 32

\* a pixel counts as different when r > 50
RedThreshold == 50

CeilDiv(a, b) == (a + b - 1) \div b

\* the grid: for every cell the number of its pixels with r > RedThreshold
DiffGrid(image, width, height) ==
    LET gridCols == CeilDiv(width, gridSize)
        gridRows == CeilDiv(height, gridSize)
    IN  [i \in 0..(gridCols * gridRows - 1) |->
            Cardinality({p \in DOMAIN image :
                            /\ image[p] > RedThreshold
                            /\ (p.y \div gridSize) * gridCols + (p.x \div gridSize) = i})]

\* the cells around a cell, diagonal ones included
NeighboursWithDiagonals(cx, cy) ==
    << [x |-> cx, y |-> cy + 1], [x |-> cx, y |-> cy - 1],
       [x |-> cx + 1, y |-> cy], [x |-> cx - 1, y |-> cy],
       [x |-> cx + 1, y |-> cy + 1], [x |-> cx - 1, y |-> cy - 1],
       [x |-> cx + 1, y |-> cy - 1], [x |-> cx - 1, y |-> cy + 1] >>

\* [[0, 1], [0, -1], [1, 0], [-1, 0]] added to a cell
Neighbours(cx, cy) ==
    << [x |-> cx, y |-> cy + 1], [x |-> cx, y |-> cy - 1],
       [x |-> cx + 1, y |-> cy], [x |-> cx - 1, y |-> cy] >>

\* the while loop over the queue: st holds visited, minX, maxX, minY, maxY,
\* totalPixels
RECURSIVE FloodFill(_, _, _, _, _)
FloodFill(grid, gridCols, gridRows, queue, st) ==
    IF queue = <<>> THEN st
    ELSE LET cell == Head(queue)
             cx == cell % gridCols
             cy == cell \div gridCols
             around == Neighbours(cx, cy)
             Joins(n) == /\ n.x >= 0 /\ n.x < gridCols /\ n.y >= 0 /\ n.y < gridRows
                         /\ grid[n.y * gridCols + n.x] > 0
                         /\ (n.y * gridCols + n.x) \notin st.visited
             found == SelectSeq(around, Joins)
             pushed == [k \in 1..Len(found) |-> found[k].y * gridCols + found[k].x]
         IN  FloodFill(grid, gridCols, gridRows, Tail(queue) \o pushed,
                       [visited |-> st.visited \cup {pushed[k] : k \in 1..Len(pushed)},
                        minX |-> Min2(st.minX, cx), maxX |-> Max2(st.maxX, cx),
                        minY |-> Min2(st.minY, cy), maxY |-> Max2(st.maxY, cy),
                        totalPixels |-> st.totalPixels + grid[cell]])

\* the DiffRegion pushed for one filled component
DiffRegion(st, width, height) ==
    LET regionWidth == (st.maxX - st.minX + 1) * gridSize
        regionHeight == (st.maxY - st.minY + 1) * gridSize
        regionArea == regionWidth * regionHeight
    IN  [x |-> st.minX * gridSize,
         y |-> st.minY * gridSize,
         width |-> Min2(regionWidth, width - st.minX * gridSize),
         height |-> Min2(regionHeight, height - st.minY * gridSize),
         diffIntensity |-> IF regionArea > 0
                           THEN [num |-> st.totalPixels, den |-> regionArea]
                           ELSE [num |-> 0, den |-> 1],
         pixelCount |-> st.totalPixels]

\* the for loop over the cells from cell i on
RECURSIVE ScanCells(_, _, _, _, _, _, _)
ScanCells(grid, width, height, minRegionSize, i, visited, regions) ==
    LET gridCols == CeilDiv(width, gridSize)
        gridRows == CeilDiv(height, gridSize)
    IN  IF i >= gridCols * gridRows THEN regions
        ELSE IF grid[i] = 0 \/ i \in visited
        THEN ScanCells(grid, width, height, minRegionSize, i + 1, visited, regions)
        ELSE LET st == FloodFill(grid, gridCols, gridRows, <<i>>,
                                 [visited |-> visited \cup {i},
                                  minX |-> gridCols, maxX |-> 0,
                                  minY |-> gridRows, maxY |-> 0, totalPixels |-> 0])
             IN  ScanCells(grid, width, height, minRegionSize, i + 1, st.visited,
                           IF st.totalPixels < minRegionSize THEN regions
                           ELSE Append(regions, DiffRegion(st, width, height)))

\* a.diffIntensity < b.diffIntensity
LessIntense(a, b) ==
    a.diffIntensity.num * b.diffIntensity.den < b.diffIntensity.num * a.diffIntensity.den

\* regions.sort((a, b) => b.diffIntensity - a.diffIntensity): a stable sort
RECURSIVE SortByIntensity(_)
SortByIntensity(regions) ==
    IF regions = <<>> THEN <<>>
    ELSE LET n == Len(regions)
             last == regions[n]
             front == SortByIntensity(SubSeq(regions, 1, n - 1))
             keep == Cardinality({k \in 1..(n - 1) : ~LessIntense(front[k], last)})
         IN  SubSeq(front, 1, keep) \o <<last>> \o SubSeq(front, keep + 1, n - 1)

\* the regions returned in the order the scan found them
findDiffRegionsUnsorted(image, width, height, minRegionSize) ==
    ScanCells(DiffGrid(image, width, height), width, height, minRegionSize, 0, {}, <<>>)

findDiffRegions(image, width, height, minRegionSize) ==
    SortByIntensity(ScanCells(DiffGrid(image, width, height), width, height,
                              minRegionSize, 0, {}, <<>>))

\* pixelmatch draws a pixel that does not differ as its luminance y blended
\* with white at alpha 0.1: 255 + (y - 255) * 0.1, stored in a byte
FadedGray(y) == 255 - ((255 - y) + 9) \div 10

\* pixelDiff on two aligned images given by the luminance of their pixels
\* (0 black, 255 white).  A differing pixel is drawn in diffColor [255, 0, 0]
\* and counted, unless pixelmatch takes it for anti-aliasing (aa): then it is
\* drawn in its anti-aliasing colour (255, 255, 0) and not counted.
pixelDiff(design, screenshot, aa) ==
    LET differing == {p \in DOMAIN design : design[p] # screenshot[p]}
    IN  [diffCount |-> Cardinality(differing \ aa),
         diffImage |-> [p \in DOMAIN design |->
                           IF p \in differing THEN 255 ELSE FadedGray(design[p])]]

(***************************************************************************)
(* src/core/patcher.ts: a Map<string,string> and a directory are functions *)
(* from paths to contents.                                                 *)
(***************************************************************************)
EmptyFiles == <<>>

\* new Map(base) followed by set(path, content) for every entry of over;
\* likewise writing the files of over into a directory holding base
Overlay(base, over) ==
    [p \in (DOMAIN base) \cup (DOMAIN over) |->
        IF p \in DOMAIN over THEN over[p] ELSE base[p]]

Restrict(files, paths) == [p \in (DOMAIN files) \cap paths |-> files[p]]

writeCodeToFiles(code, dir) == Overlay(dir, code)

\* the backup directory after createBackup(filePaths, projectDir, k): the listed
\* files that exist are copied over whatever the directory already holds
createBackup(paths, dir, bks, k) ==
    LET old == IF k \in DOMAIN bks THEN bks[k] ELSE EmptyFiles
    IN  [j \in (DOMAIN bks) \cup {k} |->
            IF j = k THEN Overlay(old, Restrict(dir, paths)) ELSE bks[j]]

\* rollbackToBackup returns the files of the backup and writes them to projectDir
rollbackCode(bks, k) == bks[k]

rollbackDisk(bks, k, dir) == Overlay(dir, bks[k])

\* patchCode: full regeneration returns the extracted files, a surgical patch
\* merges them into the current code
patchCode(strat, code, response) ==
    IF strat = "full_regen" THEN response ELSE Overlay(code, response)

(***************************************************************************)
(* src/agent/loop.ts: runBoulderLoop                                       *)
(***************************************************************************)
Paths == {"a", "b"}

\* SSIM values of a comparison, in tenths
SsimVals == {5, 10}

\* similarityScore values of a vision comparison that returns, in tenths
VisionVals == {10}

\* mssim < 0.98
VisionWanted(ssim) == ssim * 10 < 98

\* files extracted from the model's answer to the patch made in round n
PatchResponses(n) == { [p \in {path} |-> n] : path \in Paths }

InitialCode == [p \in {"a"} |-> 0]

LoopConfigs ==
    { [threshold |-> DefaultThreshold, maxIterations |-> m,
       improvementThreshold |-> DefaultImprovementThreshold,
       patchSwitchThreshold |-> DefaultPatchSwitchThreshold, overall |-> 1] :
      m \in 1..MaxIter }

FnIdle ==
    /\ fnIn = [fn |-> "none"]
    /\ fnOut = Null

\* createIterationState: the fields of an IterationState the phases are read from
IterationState(iter, status) ==
    [iteration |-> iter, status |-> status, stopReason |-> Null]

\* lines 72-101 up to the test of options.existingCode
Init ==
    /\ FnIdle
    /\ config \in LoopConfigs
    /\ options \in {[existingCode |-> Null], [existingCode |-> Some(InitialCode)]}
    /\ pc = "start"
    /\ iteration = 1
    /\ history = <<>>
    /\ previousScore = Null
    /\ strategy = "full_regen"
    /\ currentCode = options.existingCode
    /\ disk = IF IsNull(options.existingCode) THEN EmptyFiles ELSE Val(options.existingCode)
    /\ filePaths = {}
    /\ backups = <<>>
    /\ now = 0
    /\ round = <<>>
    /\ result = Null
    /\ rendered = <<>>
    /\ emitted = <<>>
    /\ generated = Null
    /\ written = <<>>

Running == pc \notin {"idle", "done", "rejected"}

\* Date.now() advances while the run awaits a collaborator
Tick ==
    /\ Running
    /\ now < MaxClock
    /\ now' = now + 1
    /\ UNCHANGED <<fnVars, config, options, pc, iteration, history, previousScore,
                   strategy, currentCode, filePaths, disk, backups, round, result,
                   rendered, emitted, generated, written>>

\* generateInitialCode returns, but its files are not written
GenerateInitialNotWritten ==
    /\ pc = "start"
    /\ IsNull(currentCode)
    /\ emitted' = Append(emitted, IterationState(0, "patching"))
    /\ currentCode' = Some(InitialCode)
    /\ generated' = Some(InitialCode)
    /\ filePaths' = DOMAIN InitialCode
    /\ pc' = "top"
    /\ UNCHANGED <<fnVars, config, options, iteration, history, previousScore, strategy,
                   disk, backups, now, round, result, rendered, written>>

\* lines 90-94: no existing code, generateInitialCode returns and is written
GenerateInitial ==
    /\ pc = "start"
    /\ IsNull(currentCode)
    /\ emitted' = Append(emitted, IterationState(0, "patching"))
    /\ currentCode' = Some(InitialCode)
    /\ generated' = Some(InitialCode)
    /\ disk' = writeCodeToFiles(InitialCode, disk)
    /\ filePaths' = DOMAIN InitialCode
    /\ pc' = "top"
    /\ UNCHANGED <<fnVars, config, options, iteration, history, previousScore, strategy,
                   backups, now, round, result, rendered, written>>

\* lines 95-97: options.existingCode is used as it is
UseExisting ==
    /\ pc = "start"
    /\ ~IsNull(currentCode)
    /\ filePaths' = DOMAIN Val(currentCode)
    /\ pc' = "top"
    /\ UNCHANGED <<fnVars, config, options, iteration, history, previousScore, strategy,
                   currentCode, disk, backups, now, round, result, rendered, emitted,
                   generated, written>>

\* an awaited call throws; nothing in runBoulderLoop catches it
Reject ==
    /\ pc' = "rejected"
    /\ UNCHANGED <<fnVars, config, options, iteration, history, previousScore, strategy,
                   currentCode, filePaths, disk, backups, now, round, result, rendered,
                   emitted, generated, written>>

\* lines 91-92: 'patching' is emitted, then generateInitialCode throws
GenerateInitialFails ==
    /\ pc = "start"
    /\ IsNull(currentCode)
    /\ emitted' = Append(emitted, IterationState(0, "patching"))
    /\ pc' = "rejected"
    /\ UNCHANGED <<fnVars, config, options, iteration, history, previousScore, strategy,
                   currentCode, filePaths, disk, backups, now, round, result, rendered,
                   generated, written>>

BoulderLoopResult(score, total, reason) ==
    [finalScore |-> score, totalIterations |-> total, stopReason |-> reason,
     finalCode |-> Val(currentCode), history |-> history, elapsed |-> now]

\* previousScore ?? 0
OrZero(x) == IF IsNull(x) THEN 0 ELSE Val(x)

\* the timeout return counting the round that was not run
TimeoutReturnCountsRound ==
    /\ pc = "top"
    /\ iteration <= config.maxIterations
    /\ now > config.overall
    /\ result' = Some(BoulderLoopResult(OrZero(previousScore), iteration, "timeout"))
    /\ pc' = "done"
    /\ UNCHANGED <<fnVars, config, options, iteration, history, previousScore, strategy,
                   currentCode, filePaths, disk, backups, now, round, rendered, emitted,
                   generated, written>>

\* lines 104-115: the budget test at the head of a round
TimeoutReturn ==
    /\ pc = "top"
    /\ iteration <= config.maxIterations
    /\ now > config.overall
    /\ result' = Some(BoulderLoopResult(OrZero(previousScore), iteration - 1, "timeout"))
    /\ pc' = "done"
    /\ UNCHANGED <<fnVars, config, options, iteration, history, previousScore, strategy,
                   currentCode, filePaths, disk, backups, now, round, rendered, emitted,
                   generated, written>>

\* every round writes its backup under the key 1
BeginRoundSingleBackup ==
    /\ pc = "top"
    /\ iteration <= config.maxIterations
    /\ ~(now > config.overall)
    /\ backups' = IF iteration > 1
                  THEN createBackup(filePaths, disk, backups, 1)
                  ELSE backups
    /\ emitted' = Append(emitted, IterationState(iteration, "capturing"))
    /\ pc' = "capture"
    /\ UNCHANGED <<fnVars, config, options, iteration, history, previousScore, strategy,
                   currentCode, filePaths, disk, now, round, result, rendered, generated,
                   written>>

\* the backup of round 1 is never made: backups start with the second round
BeginRoundLateBackup ==
    /\ pc = "top"
    /\ iteration <= config.maxIterations
    /\ ~(now > config.overall)
    /\ backups' = IF iteration > 2
                  THEN createBackup(filePaths, disk, backups, iteration - 1)
                  ELSE backups
    /\ emitted' = Append(emitted, IterationState(iteration, "capturing"))
    /\ pc' = "capture"
    /\ UNCHANGED <<fnVars, config, options, iteration, history, previousScore, strategy,
                   currentCode, filePaths, disk, now, round, result, rendered, generated,
                   written>>

\* lines 117-121: the backup of the previous round's files, then 'capturing'
BeginRound ==
    /\ pc = "top"
    /\ iteration <= config.maxIterations
    /\ ~(now > config.overall)
    /\ backups' = IF iteration > 1
                  THEN createBackup(filePaths, disk, backups, iteration - 1)
                  ELSE backups
    /\ emitted' = Append(emitted, IterationState(iteration, "capturing"))
    /\ pc' = "capture"
    /\ UNCHANGED <<fnVars, config, options, iteration, history, previousScore, strategy,
                   currentCode, filePaths, disk, now, round, result, rendered, generated,
                   written>>

\* lines 213-221: the loop condition fails
LoopExit ==
    /\ pc = "top"
    /\ ~(iteration <= config.maxIterations)
    /\ result' = Some(BoulderLoopResult(OrZero(previousScore), config.maxIterations,
                                        "max_iterations"))
    /\ pc' = "done"
    /\ UNCHANGED <<fnVars, config, options, iteration, history, previousScore, strategy,
                   currentCode, filePaths, disk, backups, now, round, rendered, emitted,
                   generated, written>>

\* the screenshot is taken but 'comparing' is not emitted
CaptureSilent ==
    /\ pc = "capture"
    /\ rendered' = Append(rendered, [disk |-> disk, code |-> Val(currentCode)])
    /\ pc' = "compare"
    /\ UNCHANGED <<fnVars, config, options, iteration, history, previousScore, strategy,
                   currentCode, filePaths, disk, backups, now, round, result, emitted,
                   generated, written>>

\* lines 123-132: the screenshot shows the files that are on disk; 'comparing'
Capture ==
    /\ pc = "capture"
    /\ rendered' = Append(rendered, [disk |-> disk, code |-> Val(currentCode)])
    /\ emitted' = Append(emitted, IterationState(iteration, "comparing"))
    /\ pc' = "compare"
    /\ UNCHANGED <<fnVars, config, options, iteration, history, previousScore, strategy,
                   currentCode, filePaths, disk, backups, now, round, result, generated,
                   written>>

\* lines 125-130: capture, captureHMR or resizeToMatch throws
CaptureFails ==
    /\ pc = "capture"
    /\ Reject

\* lines 134-193, for one outcome of compareImages and sendVisionComparison:
\* visionCall is "skipped", "threw" or "returned", vision the score it returned
Analyze(ssim, visionCall, vision) ==
    LET compositeScore == computeCompositeScore(ssim, Null, vision)
        category == categorizeIteration(compositeScore, previousScore, config.threshold,
                                        config.improvementThreshold)
        recommendation == suggestStrategy(compositeScore, history, config)
        record == buildIterationRecord(iteration, compositeScore, strategy, filePaths,
                                       category)
        rollback == recommendation.shouldRollback /\ ~IsNull(recommendation.rollbackTo)
        target == Val(recommendation.rollbackTo)
        analyzing == Append(emitted, IterationState(iteration, "analyzing"))
    IN  /\ history' = Append(history, record)
        /\ round' = [iteration |-> iteration, ssim |-> ssim, visionCall |-> visionCall,
                     vision |-> vision, compositeScore |-> compositeScore,
                     suggestedStrategy |-> reportSuggestedStrategy(ssim, vision),
                     recommendation |-> recommendation]
        /\ IF recommendation.shouldStop
           THEN /\ result' = Some([finalScore |-> compositeScore,
                                   totalIterations |-> iteration,
                                   stopReason |-> Val(recommendation.stopReason),
                                   finalCode |-> Val(currentCode),
                                   history |-> history', elapsed |-> now])
                /\ emitted' = analyzing
                /\ pc' = "done"
                /\ UNCHANGED <<strategy, currentCode, filePaths, disk>>
           ELSE IF rollback /\ target \notin DOMAIN backups
           THEN \* readdir of a missing backup directory throws
                /\ emitted' = analyzing
                /\ pc' = "rejected"
                /\ UNCHANGED <<strategy, currentCode, filePaths, disk, result>>
           ELSE /\ currentCode' = IF rollback THEN Some(rollbackCode(backups, target))
                                  ELSE currentCode
                /\ disk' = IF rollback THEN rollbackDisk(backups, target, disk) ELSE disk
                /\ filePaths' = IF rollback THEN DOMAIN rollbackCode(backups, target)
                                ELSE filePaths
                /\ strategy' = recommendation.strategy
                /\ emitted' = Append(analyzing, IterationState(iteration, "patching"))
                /\ pc' = "patch"
                /\ UNCHANGED result
        /\ UNCHANGED <<fnVars, config, options, iteration, previousScore, backups, now,
                       rendered, generated, written>>

\* a vision call that throws is scored as a similarity of 0
CompareVisionThrowScoresZero ==
    /\ pc = "compare"
    /\ \E ssim \in SsimVals :
          IF VisionWanted(ssim)
          THEN \/ Analyze(ssim, "threw", Some(0))
               \/ \E v \in VisionVals : Analyze(ssim, "returned", Some(v))
          ELSE Analyze(ssim, "skipped", Null)

Compare ==
    /\ pc = "compare"
    /\ \E ssim \in SsimVals :
          IF VisionWanted(ssim)
          THEN \/ Analyze(ssim, "threw", Null)
               \/ \E v \in VisionVals : Analyze(ssim, "returned", Some(v))
          ELSE Analyze(ssim, "skipped", Null)

\* line 134: compareImages throws
CompareFails ==
    /\ pc = "compare"
    /\ Reject

\* line 171: saveIterationArtifacts throws, after 'analyzing' and history.push
SaveArtifactsFails ==
    /\ pc = "compare"
    /\ \E ssim \in SsimVals :
          \E vision \in IF VisionWanted(ssim)
                        THEN {Null} \cup {Some(v) : v \in VisionVals} ELSE {Null} :
             LET compositeScore == computeCompositeScore(ssim, Null, vision)
                 category == categorizeIteration(compositeScore, previousScore,
                                                 config.threshold,
                                                 config.improvementThreshold)
             IN  history' = Append(history, buildIterationRecord(iteration, compositeScore,
                                                                strategy, filePaths,
                                                                category))
    /\ emitted' = Append(emitted, IterationState(iteration, "analyzing"))
    /\ pc' = "rejected"
    /\ UNCHANGED <<fnVars, config, options, iteration, previousScore, strategy,
                   currentCode, filePaths, disk, backups, now, round, result, rendered,
                   generated, written>>

\* a round that rolled back is run again under the same iteration number
PatchRetriesRolledBackRound ==
    /\ pc = "patch"
    /\ \E response \in PatchResponses(iteration) :
          LET newCode == patchCode(strategy, Val(currentCode), response)
          IN  /\ disk' = writeCodeToFiles(newCode, disk)
              /\ currentCode' = Some(newCode)
              /\ filePaths' = DOMAIN newCode
              /\ written' = Append(written, [code |-> newCode, strategy |-> strategy])
    /\ previousScore' = Some(round.compositeScore)
    /\ iteration' = IF round.recommendation.shouldRollback THEN iteration ELSE iteration + 1
    /\ pc' = "top"
    /\ UNCHANGED <<fnVars, config, options, history, strategy, backups, now, round,
                   result, rendered, emitted, generated>>

\* the next round starts while the patch is not on disk yet
PatchNotWritten ==
    /\ pc = "patch"
    /\ \E response \in PatchResponses(iteration) :
          LET newCode == patchCode(strategy, Val(currentCode), response)
          IN  /\ currentCode' = Some(newCode)
              /\ filePaths' = DOMAIN newCode
              /\ written' = Append(written, [code |-> newCode, strategy |-> strategy])
    /\ previousScore' = Some(round.compositeScore)
    /\ iteration' = iteration + 1
    /\ pc' = "top"
    /\ UNCHANGED <<fnVars, config, options, history, strategy, disk, backups, now, round,
                   result, rendered, emitted, generated>>

\* the patch generator is handed the report's suggestedStrategy
PatchUsesReportStrategy ==
    /\ pc = "patch"
    /\ \E response \in PatchResponses(iteration) :
          LET newCode == patchCode(round.suggestedStrategy, Val(currentCode), response)
          IN  /\ disk' = writeCodeToFiles(newCode, disk)
              /\ currentCode' = Some(newCode)
              /\ filePaths' = DOMAIN newCode
              /\ written' = Append(written, [code |-> newCode,
                                             strategy |-> round.suggestedStrategy])
    /\ previousScore' = Some(round.compositeScore)
    /\ iteration' = iteration + 1
    /\ pc' = "top"
    /\ UNCHANGED <<fnVars, config, options, history, strategy, backups, now, round,
                   result, rendered, emitted, generated>>

\* lines 195-210: the patch is generated, written and becomes the current code
Patch ==
    /\ pc = "patch"
    /\ \E response \in PatchResponses(iteration) :
          LET newCode == patchCode(strategy, Val(currentCode), response)
          IN  /\ disk' = writeCodeToFiles(newCode, disk)
              /\ currentCode' = Some(newCode)
              /\ filePaths' = DOMAIN newCode
              /\ written' = Append(written, [code |-> newCode, strategy |-> strategy])
    /\ previousScore' = Some(round.compositeScore)
    /\ iteration' = iteration + 1
    /\ pc' = "top"
    /\ UNCHANGED <<fnVars, config, options, history, strategy, backups, now, round,
                   result, rendered, emitted, generated>>

\* the files of the patch are written as they are produced, then the call throws
PatchFailsAfterWrite ==
    /\ pc = "patch"
    /\ \E response \in PatchResponses(iteration) :
          disk' = writeCodeToFiles(response, disk)
    /\ pc' = "rejected"
    /\ UNCHANGED <<fnVars, config, options, iteration, history, previousScore, strategy,
                   currentCode, filePaths, backups, now, round, result, rendered, emitted,
                   generated, written>>

\* line 195: patchCode throws
PatchFails ==
    /\ pc = "patch"
    /\ Reject

Next ==
    \/ Tick
    \/ GenerateInitial
    \/ UseExisting
    \/ GenerateInitialFails
    \/ TimeoutReturn
    \/ BeginRound
    \/ LoopExit
    \/ Capture
    \/ CaptureFails
    \/ Compare
    \/ CompareFails
    \/ SaveArtifactsFails
    \/ Patch
    \/ PatchFails

Spec == Init /\ [][Next]_vars

\* every awaited call of the run returns or throws
FairSpec == Spec /\ WF_vars(Next)

Returned == pc = "done"

RolledBack == pc = "patch" /\ round.recommendation.shouldRollback


(***************************************************************************)
(* Inputs of the pure-function specifications.                             *)
(***************************************************************************)
RecScores == {60, 97}

CurScores == {50, 60, 69, 70, 95, 96}

RecCategories == {"stalled", "improved"}

FnConfig ==
    [threshold |-> DefaultThreshold, maxIterations |-> MaxHist,
     improvementThreshold |-> DefaultImprovementThreshold,
     patchSwitchThreshold |-> DefaultPatchSwitchThreshold, overall |-> 1]

RecBodies == [score : RecScores, strategy : PatchStrategy, category : RecCategories]

\* the history holding the record bodies f, numbered 1..n as the loop numbers them
HistoryOf(f) ==
    [i \in DOMAIN f |-> buildIterationRecord(i, f[i].score, f[i].strategy, <<>>,
                                             f[i].category)]

CatScores == {78, 79, 80, 81, 82, 95, 96}

CatImprovementThresholds == {0, 1, 2}

\* state of runBoulderLoop when no run is in progress
LoopIdle ==
    /\ config = FnConfig
    /\ pc = "idle"
    /\ iteration = 0
    /\ history = <<>>
    /\ previousScore = Null
    /\ strategy = "full_regen"
    /\ currentCode = Null
    /\ filePaths = {}
    /\ disk = EmptyFiles
    /\ backups = <<>>
    /\ now = 0
    /\ round = <<>>
    /\ result = Null
    /\ rendered = <<>>
    /\ options = [existingCode |-> Null]
    /\ emitted = <<>>
    /\ generated = Null
    /\ written = <<>>

InitSuggest ==
    /\ \E n \in 0..MaxHist : \E f \in [1..n -> RecBodies] : \E score \in CurScores :
          fnIn = [fn |-> "suggestStrategy", score |-> score, history |-> HistoryOf(f),
                  cfg |-> FnConfig]
    /\ fnOut = Null
    /\ LoopIdle

ApplySuggest ==
    /\ fnIn.fn = "suggestStrategy"
    /\ IsNull(fnOut)
    /\ fnOut' = Some(suggestStrategy(fnIn.score, fnIn.history, fnIn.cfg))
    /\ UNCHANGED <<fnIn, loopVars>>

SpecSuggest == InitSuggest /\ [][ApplySuggest]_vars

InitCategorize ==
    /\ fnIn \in [fn : {"categorizeIteration"}, current : CatScores,
                 previous : {Null} \cup {Some(p) : p \in CatScores},
                 threshold : {DefaultThreshold},
                 improvementThreshold : CatImprovementThresholds]
    /\ fnOut = Null
    /\ LoopIdle

ApplyCategorize ==
    /\ fnIn.fn = "categorizeIteration"
    /\ IsNull(fnOut)
    /\ fnOut' = Some(categorizeIteration(fnIn.current, fnIn.previous, fnIn.threshold,
                                         fnIn.improvementThreshold))
    /\ UNCHANGED <<fnIn, loopVars>>

SpecCategorize == InitCategorize /\ [][ApplyCategorize]_vars

\* scores in tenths handed to computeCompositeScore, from below 0 to above 1
ScoreInputs == (0 - MaxOver)..(10 + MaxOver)

InitComposite ==
    /\ \E ssim \in ScoreInputs :
          \E layout, vision \in {Null} \cup {Some(x) : x \in ScoreInputs} :
             fnIn = [fn |-> "computeCompositeScore", ssim |-> ssim, layout |-> layout,
                     vision |-> vision]
    /\ fnOut = Null
    /\ LoopIdle

ApplyComposite ==
    /\ fnIn.fn = "computeCompositeScore"
    /\ fnOut = Null
    /\ fnOut' = Some(computeCompositeScore(fnIn.ssim, fnIn.layout, fnIn.vision))
    /\ UNCHANGED <<fnIn, loopVars>>

SpecComposite == InitComposite /\ [][ApplyComposite]_vars

CompositeDone == fnIn.fn = "computeCompositeScore" /\ fnOut # Null

ImageWidths == {64, 70}

ImageHeights == {32, 40}

\* the pixels of a diff image that may be other than black
CandidatePixels ==
    {[x |-> 0, y |-> 0], [x |-> 31, y |-> 31], [x |-> 32, y |-> 0], [x |-> 64, y |-> 5],
     [x |-> 69, y |-> 31], [x |-> 0, y |-> 32], [x |-> 63, y |-> 39], [x |-> 69, y |-> 39]}

\* red values on both sides of the test r > 50
RedValues == {50, 255}

InitRegions ==
    /\ \E width \in ImageWidths, height \in ImageHeights :
          \E image \in [{p \in CandidatePixels : p.x < width /\ p.y < height}
                            -> RedValues] :
             \E minRegionSize \in 1..MaxMinRegionSize :
                fnIn = [fn |-> "findDiffRegions", image |-> image, width |-> width,
                        height |-> height, minRegionSize |-> minRegionSize]
    /\ fnOut = Null
    /\ LoopIdle

ApplyRegions ==
    /\ fnIn.fn = "findDiffRegions"
    /\ fnOut = Null
    /\ fnOut' = Some(findDiffRegions(fnIn.image, fnIn.width, fnIn.height,
                                     fnIn.minRegionSize))
    /\ UNCHANGED <<fnIn, loopVars>>

SpecRegions == InitRegions /\ [][ApplyRegions]_vars

RegionsDone == fnIn.fn = "findDiffRegions" /\ fnOut # Null

\* the pixels of a width x height image
PixelsOf(width, height) ==
    {[x |-> x, y |-> y] : x \in 0..(width - 1), y \in 0..(height - 1)}

Luminances == {0, 255}

\* the heights of the image pairs given to pixelDiff, in pixels
PairHeights == {1, 2}

InitPixelDiff ==
    /\ \E width \in 1..MaxSide, height \in PairHeights :
          \E design, screenshot \in [PixelsOf(width, height) -> Luminances] :
             \E minRegionSize \in 1..MaxMinRegionSize :
                fnIn = [fn |-> "pixelDiff", design |-> design, screenshot |-> screenshot,
                        width |-> width, height |-> height,
                        minRegionSize |-> minRegionSize]
    /\ fnOut = Null
    /\ LoopIdle

\* pixelDiff, then findDiffRegions on the diff image it produced
ApplyPixelDiff ==
    /\ fnIn.fn = "pixelDiff"
    /\ fnOut = Null
    /\ \E aa \in SUBSET {p \in DOMAIN fnIn.design : fnIn.design[p] # fnIn.screenshot[p]} :
          LET pixelResult == pixelDiff(fnIn.design, fnIn.screenshot, aa)
          IN  fnOut' = Some([diffCount |-> pixelResult.diffCount,
                             diffRegions |-> findDiffRegions(pixelResult.diffImage,
                                                             fnIn.width, fnIn.height,
                                                             fnIn.minRegionSize)])
    /\ UNCHANGED <<fnIn, loopVars>>

SpecPixelDiff == InitPixelDiff /\ [][ApplyPixelDiff]_vars

PixelDiffDone == fnIn.fn = "pixelDiff" /\ fnOut # Null

(***************************************************************************)
(* src/agent/session.ts: agentReducer.  A message is its role, its content  *)
(* and its imagePath; the content is a fixed prefix, a text and, for the    *)
(* message of a finished loop, the result it reports.  The id and the       *)
(* timestamp of a message are not modelled.  currentStreamText is the       *)
(* sequence of the chunks it was concatenated from.                         *)
(***************************************************************************)
AgentPhases == {"auth", "idle", "generating", "looping", "conversation", "error"}

initialState ==
    [phase |-> "auth", user |-> Null, projectContext |-> Null, currentLoop |-> Null,
     messages |-> <<>>, currentDesignPath |-> Null, currentOutputPath |-> Null,
     currentStreamText |-> <<>>]

\* the content of a message: a prefix, a text, and the loop result it reports
Content(prefix, text, loopResult) ==
    [prefix |-> prefix, text |-> text, result |-> loopResult]

createMessage(role, content, imagePath) ==
    [role |-> role, content |-> content, imagePath |-> imagePath]

\* STREAMING_DONE also sets the phase to 'idle'
agentReducerStreamingDoneIdle(state, action) ==
    CASE action.type = "AUTH_SUCCESS" ->
            [state EXCEPT !.phase = "idle", !.user = Some(action.email)]
      [] action.type = "PROJECT_DETECTED" ->
            [state EXCEPT !.projectContext = Some(action.context)]
      [] action.type = "USER_MESSAGE" ->
            [state EXCEPT
                !.messages = Append(@, createMessage("user", Content("", action.text, Null),
                                                     action.imagePath)),
                !.currentDesignPath = IF IsNull(action.imagePath) THEN @
                                      ELSE action.imagePath,
                !.phase = "generating",
                !.currentStreamText = <<>>]
      [] action.type = "STREAMING_CHUNK" ->
            [state EXCEPT !.currentStreamText = Append(@, action.text)]
      [] action.type = "STREAMING_DONE" ->
            [state EXCEPT !.currentStreamText = <<>>, !.phase = "idle"]
      [] action.type = "LOOP_PROGRESS" ->
            [state EXCEPT !.phase = "looping", !.currentLoop = Some(action.state)]
      [] action.type = "LOOP_COMPLETE" ->
            [state EXCEPT
                !.phase = "idle",
                !.currentLoop = Null,
                !.messages = Append(@, createMessage("assistant",
                                                     Content("Loop complete: ", "",
                                                             Some(action.result)),
                                                     Null))]
      [] action.type = "ASSISTANT_MESSAGE" ->
            [state EXCEPT
                !.messages = Append(@, createMessage("assistant",
                                                     Content("", action.text, Null), Null)),
                !.phase = "idle"]
      [] action.type = "ERROR" ->
            [state EXCEPT
                !.phase = "error",
                !.messages = Append(@, createMessage("assistant",
                                                     Content("Error: ", action.error, Null),
                                                     Null))]
      [] action.type = "SET_PHASE" -> [state EXCEPT !.phase = action.phase]
      [] OTHER -> state

agentReducer(state, action) ==
    CASE action.type = "AUTH_SUCCESS" ->
            [state EXCEPT !.phase = "idle", !.user = Some(action.email)]
      [] action.type = "PROJECT_DETECTED" ->
            [state EXCEPT !.projectContext = Some(action.context)]
      [] action.type = "USER_MESSAGE" ->
            [state EXCEPT
                !.messages = Append(@, createMessage("user", Content("", action.text, Null),
                                                     action.imagePath)),
                !.currentDesignPath = IF IsNull(action.imagePath) THEN @
                                      ELSE action.imagePath,
                !.phase = "generating",
                !.currentStreamText = <<>>]
      [] action.type = "STREAMING_CHUNK" ->
            [state EXCEPT !.currentStreamText = Append(@, action.text)]
      [] action.type = "STREAMING_DONE" ->
            [state EXCEPT !.currentStreamText = <<>>]
      [] action.type = "LOOP_PROGRESS" ->
            [state EXCEPT !.phase = "looping", !.currentLoop = Some(action.state)]
      [] action.type = "LOOP_COMPLETE" ->
            [state EXCEPT
                !.phase = "idle",
                !.currentLoop = Null,
                !.messages = Append(@, createMessage("assistant",
                                                     Content("Loop complete: ", "",
                                                             Some(action.result)),
                                                     Null))]
      [] action.type = "ASSISTANT_MESSAGE" ->
            [state EXCEPT
                !.messages = Append(@, createMessage("assistant",
                                                     Content("", action.text, Null), Null)),
                !.phase = "idle"]
      [] action.type = "ERROR" ->
            [state EXCEPT
                !.phase = "error",
                !.messages = Append(@, createMessage("assistant",
                                                     Content("Error: ", action.error, Null),
                                                     Null))]
      [] action.type = "SET_PHASE" -> [state EXCEPT !.phase = action.phase]
      [] OTHER -> state

\* the actions dispatched to the reducer
AgentActions ==
    {[type |-> "AUTH_SUCCESS", email |-> "user@example.com"],
     [type |-> "PROJECT_DETECTED", context |-> "react"],
     [type |-> "LOOP_PROGRESS", state |-> IterationState(1, "capturing")],
     [type |-> "LOOP_COMPLETE",
      result |-> [finalScore |-> 96, totalIterations |-> 2, stopReason |-> "success"]],
     [type |-> "STREAMING_CHUNK", text |-> "chunk"],
     [type |-> "STREAMING_DONE"],
     [type |-> "ASSISTANT_MESSAGE", text |-> "done"],
     [type |-> "ERROR", error |-> "failed"]}
    \cup {[type |-> "USER_MESSAGE", text |-> "build this", imagePath |-> i] :
             i \in {Null, Some("design.png")}}
    \cup {[type |-> "SET_PHASE", phase |-> ph] : ph \in AgentPhases}

\* useReducer(agentReducer, initialState): fnOut holds the state of the agent,
\* fnIn the action dispatched last
InitReducer ==
    /\ fnIn = [fn |-> "agentReducer", action |-> [type |-> "none"]]
    /\ fnOut = Some(initialState)
    /\ LoopIdle

Dispatch ==
    /\ fnIn.fn = "agentReducer"
    /\ \E action \in AgentActions :
          LET next == agentReducer(Val(fnOut), action)
          IN  /\ Len(next.messages) <= MaxMessages
              /\ Len(next.currentStreamText) <= MaxChunks
              /\ fnIn' = [fn |-> "agentReducer", action |-> action]
              /\ fnOut' = Some(next)
    /\ UNCHANGED loopVars

SpecReducer == InitReducer /\ [][Dispatch]_vars

SuggestDone == fnIn.fn = "suggestStrategy" /\ ~IsNull(fnOut)

CategorizeDone == fnIn.fn = "categorizeIteration" /\ ~IsNull(fnOut)

LastScore(h) == h[Len(h)].score

\* first index holding the maximal score of h
FirstBestIndex(h) ==
    CHOOSE i \in 1..Len(h) :
        /\ \A j \in 1..Len(h) : h[j].score <= h[i].score
        /\ \A j \in 1..(i - 1) : h[j].score < h[i].score

\* C1: suggestStrategy stops with reason 'success' and no rollback whenever the
\* score is >= the threshold, whatever the history is.
C1_SuccessRegardlessOfHistory ==
    (SuggestDone /\ fnIn.score >= fnIn.cfg.threshold) =>
        /\ Val(fnOut).shouldStop = TRUE
        /\ Val(fnOut).stopReason = Some("success")
        /\ Val(fnOut).shouldRollback = FALSE

C1_Witness ==
    /\ SuggestDone
    /\ fnIn.score >= fnIn.cfg.threshold
    /\ Len(fnIn.history) >= fnIn.cfg.maxIterations
    /\ AllStalled(fnIn.history)
    /\ LastScore(fnIn.history) > fnIn.score
    /\ Val(fnOut).stopReason = Some("success")

NoStopRule(score, h, cfg) ==
    /\ score < cfg.threshold
    /\ Len(h) < cfg.maxIterations
    /\ ~AllStalled(h)

\* C2: regression rule: below the threshold, below maxIterations, not three
\* stalled records, and a last score greater than the current one give no stop,
\* a rollback to the first best-scoring record's iteration, and the opposite of
\* the last record's strategy.
C2_RegressionRule ==
    (/\ SuggestDone
     /\ NoStopRule(fnIn.score, fnIn.history, fnIn.cfg)
     /\ Len(fnIn.history) > 0
     /\ LastScore(fnIn.history) > fnIn.score) =>
        /\ Val(fnOut).shouldStop = FALSE
        /\ Val(fnOut).shouldRollback = TRUE
        /\ Val(fnOut).rollbackTo =
               Some(fnIn.history[FirstBestIndex(fnIn.history)].iteration)
        /\ Val(fnOut).strategy # fnIn.history[Len(fnIn.history)].strategy
        /\ Val(fnOut).strategy \in PatchStrategy

\* a regression whose best score occurs twice, the later one not being the first record
C2_Witness ==
    /\ SuggestDone
    /\ NoStopRule(fnIn.score, fnIn.history, fnIn.cfg)
    /\ Len(fnIn.history) = 3
    /\ fnIn.history[1].score < fnIn.history[2].score
    /\ fnIn.history[2].score = fnIn.history[3].score
    /\ LastScore(fnIn.history) > fnIn.score
    /\ Val(fnOut).rollbackTo = Some(2)
    /\ fnIn.history[3].strategy = "surgical_patch"
    /\ Val(fnOut).strategy = "full_regen"

\* C6: convergence rule: below the threshold and below maxIterations, three
\* trailing 'stalled' records stop the run with reason 'converged' and no
\* rollback, whatever the current score is relative to the last one.
C6_ConvergedRule ==
    (/\ SuggestDone
     /\ fnIn.score < fnIn.cfg.threshold
     /\ Len(fnIn.history) < fnIn.cfg.maxIterations
     /\ AllStalled(fnIn.history)) =>
        /\ Val(fnOut).shouldStop = TRUE
        /\ Val(fnOut).stopReason = Some("converged")
        /\ Val(fnOut).shouldRollback = FALSE

C6_Witness ==
    /\ SuggestDone
    /\ fnIn.score < fnIn.cfg.threshold
    /\ Len(fnIn.history) < fnIn.cfg.maxIterations
    /\ AllStalled(fnIn.history)
    /\ LastScore(fnIn.history) > fnIn.score
    /\ Val(fnOut).stopReason = Some("converged")

\* C7: max-iterations rule: below the threshold, a history of at least
\* maxIterations records stops the run with reason 'max_iterations' and no
\* rollback, also with three stalled records or a regression.
C7_MaxIterationsRule ==
    (/\ SuggestDone
     /\ fnIn.score < fnIn.cfg.threshold
     /\ Len(fnIn.history) >= fnIn.cfg.maxIterations) =>
        /\ Val(fnOut).shouldStop = TRUE
        /\ Val(fnOut).stopReason = Some("max_iterations")
        /\ Val(fnOut).shouldRollback = FALSE

C7_Witness ==
    /\ SuggestDone
    /\ fnIn.score < fnIn.cfg.threshold
    /\ Len(fnIn.history) >= fnIn.cfg.maxIterations
    /\ AllStalled(fnIn.history)
    /\ LastScore(fnIn.history) > fnIn.score
    /\ Val(fnOut).stopReason = Some("max_iterations")

\* C8: default rule: with no stop rule and no regression, no stop, no rollback,
\* and full_regen iff the score is below patchSwitchThreshold.
C8_DefaultRule ==
    (/\ SuggestDone
     /\ NoStopRule(fnIn.score, fnIn.history, fnIn.cfg)
     /\ (Len(fnIn.history) = 0 \/ LastScore(fnIn.history) <= fnIn.score)) =>
        /\ Val(fnOut).shouldStop = FALSE
        /\ Val(fnOut).shouldRollback = FALSE
        /\ Val(fnOut).stopReason = Null
        /\ Val(fnOut).rollbackTo = Null
        /\ Val(fnOut).strategy =
               IF fnIn.score < fnIn.cfg.patchSwitchThreshold
               THEN "full_regen" ELSE "surgical_patch"

\* a score equal to patchSwitchThreshold, after a lower last score
C8_Witness ==
    /\ SuggestDone
    /\ NoStopRule(fnIn.score, fnIn.history, fnIn.cfg)
    /\ Len(fnIn.history) > 0
    /\ LastScore(fnIn.history) < fnIn.score
    /\ fnIn.score = fnIn.cfg.patchSwitchThreshold
    /\ Val(fnOut).strategy = "surgical_patch"
    /\ Val(fnOut).shouldStop = FALSE

\* C9: categorizeIteration is total with the precedence first > achieved >
\* improved > regressed > stalled; it never returns 'converged', and a drop
\* smaller than improvementThreshold is 'regressed'.
C9_CategorizePrecedence ==
    CategorizeDone =>
        LET c == fnIn.current
            p == fnIn.previous
            out == Val(fnOut)
        IN  /\ out \in {"first", "achieved", "improved", "regressed", "stalled"}
            /\ (out = "first") <=> IsNull(p)
            /\ ~IsNull(p) =>
                /\ (out = "achieved") <=> (c >= fnIn.threshold)
                /\ (out = "improved") <=>
                       (c < fnIn.threshold /\ c - Val(p) > fnIn.improvementThreshold)
                /\ (out = "regressed") <=>
                       (/\ c < fnIn.threshold
                        /\ ~(c - Val(p) > fnIn.improvementThreshold)
                        /\ c < Val(p))
                /\ (out = "stalled") <=>
                       (/\ c < fnIn.threshold
                        /\ ~(c - Val(p) > fnIn.improvementThreshold)
                        /\ ~(c < Val(p)))

\* a drop of 1 under improvementThreshold 2
C9_Witness ==
    /\ CategorizeDone
    /\ ~IsNull(fnIn.previous)
    /\ fnIn.current < fnIn.threshold
    /\ fnIn.current < Val(fnIn.previous)
    /\ Val(fnIn.previous) - fnIn.current < fnIn.improvementThreshold
    /\ Val(fnOut) = "regressed"

\* C3: wall-clock budget: a run that returns with the elapsed time over
\* timeouts.overall returns stopReason 'timeout', never 'max_iterations' or any
\* other reason.
C3_OverBudgetReturnsTimeout ==
    (Returned /\ Val(result).elapsed > config.overall) =>
        Val(result).stopReason = "timeout"

\* C4: runBoulderLoop runs at most maxIterations capture/compare rounds, its
\* history never holds more than maxIterations records, and it terminates.
C4_BoundedRoundsAndTermination ==
    /\ [](/\ Len(history) <= config.maxIterations
          /\ Len(rendered) <= config.maxIterations
          /\ iteration <= config.maxIterations + 1)
    /\ <>(~Running)

\* a run that rolled back in a round and went on to its last round
C4_Witness ==
    /\ Returned
    /\ Len(history) = config.maxIterations
    /\ Len(history) >= 3
    /\ \E i \in 2..Len(history) : history[i].score < history[i - 1].score
    /\ \E i \in 2..Len(history) : history[i].score > history[i - 1].score
    /\ Val(result).stopReason = "max_iterations"

\* C5: after a rollback to k, the backup keyed k, the current code in memory
\* and the output files on disk equal the code that was rendered and scored in
\* round k.
C5_RollbackRestoresScoredCode ==
    RolledBack =>
        LET k == Val(round.recommendation.rollbackTo)
        IN  /\ backups[k] = rendered[k].code
            /\ Val(currentCode) = rendered[k].code
            /\ Restrict(disk, DOMAIN rendered[k].code) = rendered[k].code

\* C10: on every return path totalIterations is the number of records, the
\* records are numbered 1..totalIterations, finalScore is the last record's
\* score (0 for an empty history), and history is append-only.
C10_ResultAgreesWithHistory ==
    /\ [](Returned =>
            /\ Val(result).history = history
            /\ Val(result).totalIterations = Len(history)
            /\ \A i \in 1..Len(history) : history[i].iteration = i
            /\ Val(result).finalScore =
                   IF Len(history) = 0 THEN 0 ELSE history[Len(history)].score)
    /\ [][\/ history' = history
          \/ /\ Len(history') = Len(history) + 1
             /\ SubSeq(history', 1, Len(history)) = history]_vars

\* a timeout return after two completed rounds
C10_Witness ==
    /\ Returned
    /\ Val(result).stopReason = "timeout"
    /\ Val(result).totalIterations = 2
    /\ Val(result).finalScore = history[2].score

\* the round whose comparison was analysed last
Analysed(n) == round # <<>> /\ round.iteration = n

\* the code this round held before its patch: restored from a backup in this
\* round, or else the code the round captured
CommittedCode ==
    IF RolledBack THEN backups[Val(round.recommendation.rollbackTo)]
    ELSE rendered[iteration].code

LastEmitted == emitted[Len(emitted)]

PatchingEmitted(n) == \E i \in 1..Len(emitted) : emitted[i] = IterationState(n, "patching")

\* the successor of one emitted state in the phase cycle
FollowsInPhaseOrder(a, b) ==
    \/ a.status = "capturing" /\ b.status = "comparing" /\ b.iteration = a.iteration
    \/ a.status = "comparing" /\ b.status = "analyzing" /\ b.iteration = a.iteration
    \/ a.status = "analyzing" /\ b.status = "patching" /\ b.iteration = a.iteration
    \/ a.status = "patching" /\ b.status = "capturing" /\ b.iteration = a.iteration + 1

\* C11: a capture failure in round N is a failure of that round only:
\* runBoulderLoop does not reject.
C11_CaptureFailureDoesNotReject ==
    [][pc = "capture" => pc' # "rejected"]_vars

\* C12: when sendVisionComparison throws, or is skipped because SSIM >= 0.98,
\* the round is not failed by it and its composite score, the score of its
\* record, is the SSIM score alone clamped to [0,1].
C12_VisionFailureFallsBackToSsim ==
    /\ []((round # <<>> /\ round.visionCall \in {"threw", "skipped"}) =>
            /\ round.compositeScore = Clamp(round.ssim * 10)
            /\ history[round.iteration].score = round.compositeScore
            /\ (round.visionCall = "skipped") = ~VisionWanted(round.ssim))
    /\ [][(pc = "compare" /\ round' # round) => pc' \in {"patch", "done"}]_vars

\* the vision call threw in round 2 and the round went on to its patch
C12_Witness ==
    /\ pc = "patch"
    /\ Analysed(2)
    /\ round.visionCall = "threw"
    /\ round.compositeScore = 50
    /\ history[2].score = 50

C14_StrictlySequential ==
    /\ Len(rendered) \in {iteration - 1, iteration}
    /\ Len(history) \in {iteration - 1, iteration}
    /\ Len(written) \in {iteration - 1, iteration - 2}
    /\ Len(rendered) >= Len(history)
    /\ Len(history) >= Len(written)
    /\ \A n \in 1..Len(written) :
          /\ n + 1 \in DOMAIN rendered =>
                /\ rendered[n + 1].code = written[n].code
                /\ Restrict(rendered[n + 1].disk, DOMAIN written[n].code) = written[n].code
          /\ (n = iteration - 1 /\ pc \in {"capture", "compare"}) =>
                /\ n \in DOMAIN backups
                /\ Restrict(backups[n], DOMAIN written[n].code) = written[n].code
                /\ Restrict(disk, DOMAIN written[n].code) = written[n].code
                /\ Len(history) = n

\* round 3 is being compared after the patches of rounds 1 and 2
C14_Witness ==
    /\ pc = "compare"
    /\ iteration = 3
    /\ Len(written) = 2
    /\ written[2].code # written[1].code
    /\ rendered[3].code = written[2].code

C16_LastEmittedIsDone ==
    Returned =>
        /\ Len(emitted) >= 1
        /\ LastEmitted.status = "done"
        /\ LastEmitted.stopReason = Some(Val(result).stopReason)

\* C17: the emitted states follow capturing, comparing, analyzing in each
\* round, then patching if and only if the round does not stop; no state is
\* emitted twice, iteration numbers never decrease, and 'capturing' of round
\* N+1 comes right after 'patching' of round N.
C17_PhaseOrder ==
    /\ Len(emitted) >= 1 =>
          emitted[1] \in {IterationState(0, "patching"), IterationState(1, "capturing")}
    /\ \A i \in 1..(Len(emitted) - 1) : FollowsInPhaseOrder(emitted[i], emitted[i + 1])
    /\ \A i, j \in 1..Len(emitted) : i < j =>
          /\ emitted[i] # emitted[j]
          /\ emitted[i].iteration <= emitted[j].iteration
    /\ \A n \in 1..Len(history) :
          PatchingEmitted(n) <=>
              (round # <<>> /\ round.iteration >= n
                 /\ ~(round.iteration = n /\ round.recommendation.shouldStop))
    /\ (pc = "patch") => LastEmitted = IterationState(iteration, "patching")
    /\ (Returned /\ Analysed(Len(history)) /\ round.recommendation.shouldStop) =>
          LastEmitted = IterationState(Len(history), "analyzing")

\* a run that generated its code, patched in round 1 and stopped in round 2
C17_Witness ==
    /\ Returned
    /\ Len(emitted) = 8
    /\ emitted[1] = IterationState(0, "patching")
    /\ emitted[5] = IterationState(1, "patching")
    /\ emitted[6] = IterationState(2, "capturing")
    /\ LastEmitted = IterationState(2, "analyzing")

\* C18: computeCompositeScore returns a value in [0,1] for every input,
\* negative or above 1 included, in each of the four input combinations.
C18_CompositeInUnitRange ==
    CompositeDone => Val(fnOut) \in 0..100

\* ssim and vision both above 1, no layout: the result is clamped to 1
C18_Witness ==
    /\ CompositeDone
    /\ fnIn.ssim > 10
    /\ IsNull(fnIn.layout)
    /\ ~IsNull(fnIn.vision)
    /\ Val(fnIn.vision) > 10
    /\ Val(fnOut) = 100

\* C19: the formula is selected by which inputs are present: all three give
\* 0.3 ssim + 0.3 layout + 0.4 vision, ssim+vision 0.4 ssim + 0.6 vision,
\* ssim+layout 0.5 ssim + 0.5 layout, ssim alone ssim; a present 0 counts as
\* present; the result is that value clamped to [0,1].
C19_FormulaByPresence ==
    CompositeDone =>
        LET s == fnIn.ssim
            hasLayout == Len(fnIn.layout) = 1
            hasVision == Len(fnIn.vision) = 1
            l == fnIn.layout[1]
            v == fnIn.vision[1]
            out == Val(fnOut)
        IN  /\ (hasLayout /\ hasVision) => out = Clamp(3 * s + 3 * l + 4 * v)
            /\ (~hasLayout /\ hasVision) => out = Clamp(4 * s + 6 * v)
            /\ (hasLayout /\ ~hasVision) => out = Clamp(5 * s + 5 * l)
            /\ (~hasLayout /\ ~hasVision) => out = Clamp(10 * s)

\* ssim 1 with a vision score of 0: the ssim+vision formula gives 0.4
C19_Witness ==
    /\ CompositeDone
    /\ fnIn.ssim = 10
    /\ IsNull(fnIn.layout)
    /\ fnIn.vision = Some(0)
    /\ Val(fnOut) = 40

\* C20: findDiffRegions returns its regions sorted by non-increasing
\* diffIntensity, for every diff image and every minRegionSize.
C20_RegionsSortedByIntensity ==
    RegionsDone =>
        \A i, j \in 1..Len(Val(fnOut)) :
            i < j => ~LessIntense(Val(fnOut)[i], Val(fnOut)[j])

\* two regions, the more intense one found later in the scan of the grid
C20_Witness ==
    /\ RegionsDone
    /\ Len(Val(fnOut)) = 2
    /\ LessIntense(Val(fnOut)[2], Val(fnOut)[1])
    /\ Val(fnOut)[1].y = Val(fnOut)[2].y
    /\ Val(fnOut)[1].x > Val(fnOut)[2].x

\* the grid of the diff image findDiffRegions was given
InputGrid == DiffGrid(fnIn.image, fnIn.width, fnIn.height)

InputGridCols == CeilDiv(fnIn.width, gridSize)

ActiveCells == {i \in DOMAIN InputGrid : InputGrid[i] > 0}

\* two cells that share an edge
EdgeAdjacent(a, b) ==
    LET ax == a % InputGridCols
        ay == a \div InputGridCols
        bx == b % InputGridCols
        by == b \div InputGridCols
    IN  \/ ax = bx /\ Abs(ay - by) = 1
        \/ ay = by /\ Abs(ax - bx) = 1

\* the active cells joined to the cells of S by paths of edge-adjacent active cells
RECURSIVE JoinedTo(_)
JoinedTo(S) ==
    LET more == S \cup {b \in ActiveCells : \E a \in S : EdgeAdjacent(a, b)}
    IN  IF more = S THEN S ELSE JoinedTo(more)

Components == {JoinedTo({a}) : a \in ActiveCells}

RECURSIVE SumGrid(_)
SumGrid(S) ==
    IF S = {} THEN 0
    ELSE LET c == CHOOSE c \in S : TRUE
         IN  InputGrid[c] + SumGrid(S \ {c})

RECURSIVE SumPixelCount(_)
SumPixelCount(regions) ==
    IF regions = <<>> THEN 0
    ELSE Head(regions).pixelCount + SumPixelCount(Tail(regions))

\* region r is the box and the pixel count of the component of cells S
RegionOf(r, S) ==
    /\ r.pixelCount = SumGrid(S)
    /\ \A c \in S : /\ r.x <= (c % InputGridCols) * gridSize
                    /\ r.y <= (c \div InputGridCols) * gridSize
    /\ \E c \in S : r.x = (c % InputGridCols) * gridSize
    /\ \E c \in S : r.y = (c \div InputGridCols) * gridSize

\* C21: findDiffRegions returns exactly one region per 4-connected component
\* of active cells whose pixel count is >= minRegionSize; diagonal contact does
\* not merge, every active cell is counted in at most one region and every
\* region has pixelCount >= minRegionSize.
C21_OneRegionPerComponent ==
    RegionsDone =>
        LET out == Val(fnOut)
            kept == {S \in Components : SumGrid(S) >= fnIn.minRegionSize}
        IN  /\ Len(out) = Cardinality(kept)
            /\ \A S \in kept : \E i \in 1..Len(out) : RegionOf(out[i], S)
            /\ \A i \in 1..Len(out) :
                  /\ out[i].pixelCount >= fnIn.minRegionSize
                  /\ \E S \in kept : RegionOf(out[i], S)
            /\ SumPixelCount(out) <= SumGrid(ActiveCells)
            /\ fnIn.minRegionSize = 1 => SumPixelCount(out) = SumGrid(ActiveCells)

\* two active cells touching only at a corner are returned as two regions
C21_Witness ==
    /\ RegionsDone
    /\ fnIn.minRegionSize = 1
    /\ ActiveCells = {0, InputGridCols + 1}
    /\ Len(Val(fnOut)) = 2

\* C22: every returned region has width > 0 and height > 0, lies inside the
\* image, and its diffIntensity equals pixelCount divided by the area of the
\* reported box (width * height), hence lies in [0,1]; also for regions
\* touching the right or bottom edge of an image whose size is not a multiple
\* of the grid cell.
C22_BoxInsideImageAndIntensityOfBox ==
    RegionsDone =>
        \A i \in 1..Len(Val(fnOut)) :
            LET r == Val(fnOut)[i]
            IN  /\ r.width > 0
                /\ r.height > 0
                /\ r.x + r.width <= fnIn.width
                /\ r.y + r.height <= fnIn.height
                /\ r.diffIntensity.num * (r.width * r.height)
                       = r.pixelCount * r.diffIntensity.den
                /\ r.diffIntensity.num >= 0
                /\ r.diffIntensity.num <= r.diffIntensity.den

\* C23: when findDiffRegions is applied to the diff image pixelDiff produced,
\* the sum of pixelCount over the returned regions is at most pixelDiff's
\* diffCount; two identical images give no region covering non-differing
\* pixels.
C23_RegionsCountDifferingPixelsOnly ==
    PixelDiffDone =>
        /\ SumPixelCount(Val(fnOut).diffRegions) <= Val(fnOut).diffCount
        /\ fnIn.design = fnIn.screenshot => Val(fnOut).diffRegions = <<>>

\* C24: backups are write-once within a run: key k is written by one
\* createBackup call, at the start of round k+1, and no backup changes after
\* it was written or read by a rollback.
C24_BackupsWriteOnce ==
    /\ [][backups' # backups =>
            /\ pc = "top"
            /\ iteration > 1
            /\ (iteration - 1) \notin DOMAIN backups
            /\ DOMAIN backups' = DOMAIN backups \cup {iteration - 1}
            /\ \A k \in DOMAIN backups : backups'[k] = backups[k]]_vars
    /\ [](DOMAIN backups \subseteq 1..(iteration - 1))

\* a backup was read by a rollback in round 2 and two more were written after it
C24_Witness ==
    /\ pc = "capture"
    /\ iteration = 4
    /\ DOMAIN backups = {1, 2, 3}
    /\ history[2].score < history[1].score

\* C25: after rollbackToBackup(k) the output files on disk, and the code map
\* it returns, are exactly the files snapshotted under key k with their
\* snapshotted contents: no file written by a later round survives.
C25_RollbackRestoresFileSetExactly ==
    RolledBack =>
        LET k == Val(round.recommendation.rollbackTo)
        IN  /\ Val(currentCode) = backups[k]
            /\ disk = backups[k]

\* C26: the strategy handed to the patch generator in round N is the strategy
\* of the recommendation suggestStrategy returned in round N, and record N+1
\* carries that strategy; record 1 carries 'full_regen'.
C26_PatchStrategyIsRecommendation ==
    /\ [](\A n \in 1..Len(history) :
            history[n].strategy = IF n = 1 THEN "full_regen"
                                  ELSE written[n - 1].strategy)
    /\ [][Len(written') = Len(written) + 1 =>
            /\ Analysed(iteration)
            /\ Len(written') = iteration
            /\ written'[iteration].strategy = round.recommendation.strategy]_vars

\* round 2 regressed: the report suggests 'full_regen', the recommendation
\* and the patch of round 2 are 'surgical_patch', and so is record 3
C26_Witness ==
    /\ Len(history) = 3
    /\ Len(written) >= 2
    /\ history[2].score < history[1].score
    /\ written[2].strategy = "surgical_patch"
    /\ history[3].strategy = "surgical_patch"
    /\ reportSuggestedStrategy(5, Null) = "full_regen"
    /\ history[2].score = 50

\* C28: whenever round N regresses, the strategy of the patch made in round N
\* differs from the strategy of the patch made in round N-1, which produced
\* the regressed code.
C28_RegressionFlipsPatchStrategy ==
    \A n \in 2..Len(written) :
        history[n].score < history[n - 1].score =>
            written[n].strategy # written[n - 1].strategy

\* C29: on every return path finalScore is the composite score measured by
\* rendering exactly finalCode: no patch is applied to finalCode after the
\* round that produced finalScore.
C29_FinalScoreIsScoreOfFinalCode ==
    (Returned /\ Len(history) >= 1) =>
        /\ Val(result).finalScore = history[Len(history)].score
        /\ Val(result).finalCode = rendered[Len(history)].code
        /\ Len(written) < Len(history)

\* C30: whenever runBoulderLoop returns 'converged', the last three records
\* of the returned history are all 'stalled' and no patch was generated
\* after the third of these stalled rounds.
C30_ConvergedAfterThreeStalled ==
    (Returned /\ Val(result).stopReason = "converged") =>
        LET h == Val(result).history
            n == Len(h)
        IN  /\ n >= 3
            /\ \A i \in (n - 2)..n : h[i].category = "stalled"
            /\ Len(written) < n

\* C27: agentReducer sets the phase as a function of the action alone:
\* AUTH_SUCCESS 'idle' (user set), USER_MESSAGE 'generating' (stream text
\* cleared), LOOP_PROGRESS 'looping' (currentLoop set), LOOP_COMPLETE 'idle'
\* (currentLoop null), ASSISTANT_MESSAGE 'idle', ERROR 'error', SET_PHASE the
\* given phase; PROJECT_DETECTED, STREAMING_CHUNK and STREAMING_DONE leave the
\* phase unchanged.  Exactly USER_MESSAGE, ASSISTANT_MESSAGE, ERROR and
\* LOOP_COMPLETE append one message; no action removes or reorders messages.
C27_ReducerPhaseByAction ==
    [][LET old == Val(fnOut)
           new == Val(fnOut')
           a == fnIn'.action
           t == a.type
       IN  /\ t = "AUTH_SUCCESS" => new.phase = "idle" /\ new.user = Some(a.email)
           /\ t = "USER_MESSAGE" => new.phase = "generating" /\ new.currentStreamText = <<>>
           /\ t = "LOOP_PROGRESS" => new.phase = "looping" /\ new.currentLoop = Some(a.state)
           /\ t = "LOOP_COMPLETE" => new.phase = "idle" /\ new.currentLoop = Null
           /\ t = "ASSISTANT_MESSAGE" => new.phase = "idle"
           /\ t = "ERROR" => new.phase = "error"
           /\ t = "SET_PHASE" => new.phase = a.phase
           /\ t \in {"PROJECT_DETECTED", "STREAMING_CHUNK", "STREAMING_DONE"} =>
                 new.phase = old.phase
           /\ IF t \in {"USER_MESSAGE", "ASSISTANT_MESSAGE", "ERROR", "LOOP_COMPLETE"}
              THEN /\ Len(new.messages) = Len(old.messages) + 1
                   /\ SubSeq(new.messages, 1, Len(old.messages)) = old.messages
              ELSE new.messages = old.messages]_vars

\* STREAMING_DONE was dispatched while looping, after one message
C27_Witness ==
    /\ fnIn.fn = "agentReducer"
    /\ fnIn.action.type = "STREAMING_DONE"
    /\ Val(fnOut).phase = "looping"
    /\ Len(Val(fnOut).messages) = 1
    /\ ~IsNull(Val(fnOut).user)

\* C31: in every round the comparison and the diff report handed to patchCode
\* were computed from a screenshot of exactly the code handed to it as
\* currentCode, also in a round whose rollback replaced currentCode
C31_ComparisonDescribesPatchedCode ==
    pc = "patch" =>
        /\ Len(rendered) = iteration
        /\ Val(currentCode) = rendered[Len(rendered)].code

\* C32: whenever a round decides a rollback its target exists: rollbackTo is the
\* iteration number of a record that was in history before the round's own
\* record (1 <= rollbackTo < iteration), a backup with that key was written
\* earlier in the run, and the read of the backup never fails
C32_RollbackTargetExists ==
    /\ [](Analysed(Len(history)) /\ round.recommendation.shouldRollback =>
            LET rollbackTo == round.recommendation.rollbackTo
            IN  /\ ~IsNull(rollbackTo)
                /\ Val(rollbackTo) \in 1..(round.iteration - 1)
                /\ history[Val(rollbackTo)].iteration = Val(rollbackTo)
                /\ Val(rollbackTo) \in DOMAIN backups)
    /\ [][pc = "compare" /\ round' # round /\ round'.recommendation.shouldRollback =>
            /\ pc' = "patch"
            /\ currentCode' = Some(backups[Val(round'.recommendation.rollbackTo)])]_vars

\* round 3 rolled back to round 1, further back than the round before it
C32_Witness ==
    /\ RolledBack
    /\ round.iteration = 3
    /\ round.recommendation.rollbackTo = Some(1)
    /\ Val(currentCode) = backups[1]

\* C33: in the running loop a round that does not stop rolls back if and only
\* if its record has category 'regressed'; shouldStop and shouldRollback are
\* never both true, stopReason is set iff shouldStop, rollbackTo is set iff
\* shouldRollback
C33_RollbackIffRegressed ==
    Analysed(Len(history)) =>
        LET rec == round.recommendation
            category == history[round.iteration].category
        IN  /\ config.improvementThreshold >= 0
            /\ ~(rec.shouldStop /\ rec.shouldRollback)
            /\ ~IsNull(rec.stopReason) <=> rec.shouldStop
            /\ ~IsNull(rec.rollbackTo) <=> rec.shouldRollback
            /\ ~rec.shouldStop => (rec.shouldRollback <=> category = "regressed")
            /\ pc = "patch" /\ rec.shouldRollback =>
                   Val(currentCode) = backups[Val(rec.rollbackTo)]

\* round 2 scored below round 1 and rolled back; its record is 'regressed'
C33_Witness ==
    /\ RolledBack
    /\ round.iteration = 2
    /\ history[2].category = "regressed"
    /\ history[2].score < history[1].score

\* C34 as stated: 'first' is on record 1 and on no other record; 'achieved' is
\* only on the last record and only in a run whose stopReason is 'success';
\* 'converged' is no record's category; every record but the last has a score
\* below the threshold
C34_CategoryPlacement ==
    \A i \in 1..Len(history) :
        /\ history[i].category = "first" <=> i = 1
        /\ history[i].category # "converged"
        /\ i < Len(history) => history[i].score < config.threshold
        /\ history[i].category = "achieved" =>
               /\ i = Len(history)
               /\ ~IsNull(result)
               /\ Val(result).stopReason = "success"

\* C34, amended: as above, but an 'achieved' last record belongs either to a
\* run that returned 'success' or to a run that was rejected in that round
\* after the record was pushed, which has no stopReason
C34_CategoryPlacementOrRejected ==
    \A i \in 1..Len(history) :
        /\ history[i].category = "first" <=> i = 1
        /\ history[i].category # "converged"
        /\ i < Len(history) => history[i].score < config.threshold
        /\ history[i].category = "achieved" =>
               /\ i = Len(history)
               /\ history[i].score >= config.threshold
               /\ \/ pc = "done" /\ Val(result).stopReason = "success"
                  \/ pc = "rejected" /\ IsNull(result) /\ ~Analysed(i)

\* a run of three rounds returned 'success' with an 'achieved' last record
C34_Witness ==
    /\ Returned
    /\ Val(result).stopReason = "success"
    /\ Len(history) = 3
    /\ history[1].category = "first"
    /\ history[3].category = "achieved"

\* C36: in every state reached from initialState by agentReducer actions,
\* currentLoop is set only while a loop is in progress: phase 'idle' implies
\* currentLoop = null, and phase 'looping' implies currentLoop is set
C36_CurrentLoopOnlyWhileLooping ==
    fnIn.fn = "agentReducer" =>
        /\ Val(fnOut).phase = "idle" => IsNull(Val(fnOut).currentLoop)
        /\ Val(fnOut).phase = "looping" => ~IsNull(Val(fnOut).currentLoop)

(***************************************************************************)
(* startCallbackServer and the full OAuth flow of ensureAuthenticated      *)
(* (agent/loop.ts 263-319, 437-450).  fnOut holds the state of the server  *)
(* and of the flow, fnIn the event handled last.                            *)
(***************************************************************************)
MaxRequests == 2

\* the value of the code parameter of a request: absent, empty or a code
CodeParams == {Null, Some(""), Some("abc"), Some("xyz")}

\* `if (code && ...)`: null and the empty string are falsy
Truthy(code) == ~IsNull(code) /\ Val(code) # ""

Pending == [state |-> "pending", value |-> Null]

\* the state once server.listen has called back: the timer is armed, nothing
\* is settled, ensureAuthenticated is about to open the authorization URL
listeningServer ==
    [settled |-> FALSE, timer |-> "armed", listening |-> TRUE, codePromise |-> Pending,
     served |-> <<>>, flow |-> "opening"]

\* clearTimeout: an armed timer is cancelled, a fired one is left as it is
clearTimeout(timer) == IF timer = "armed" THEN "cleared" ELSE timer

\* the close() handed to ensureAuthenticated
close(server) ==
    [server EXCEPT !.timer = clearTimeout(@), !.listening = FALSE]

\* lines 272-277: the 5-minute timer callback
onTimeout(server) ==
    IF ~server.settled
    THEN [server EXCEPT !.settled = TRUE, !.listening = FALSE]
    ELSE server

\* lines 280-295: the 'request' handler
onRequest(server, code) ==
    IF Truthy(code) /\ ~server.settled
    THEN [server EXCEPT !.settled = TRUE,
                        !.timer = clearTimeout(@),
                        !.served = Append(@, [code |-> code, status |-> 200]),
                        !.listening = FALSE,
                        !.codePromise = [state |-> "resolved", value |-> code]]
    ELSE [server EXCEPT !.served = Append(@, [code |-> code, status |-> 400])]

\* lines 297-303: the 'error' handler
onError(server) ==
    IF ~server.settled
    THEN [server EXCEPT !.settled = TRUE,
                        !.timer = clearTimeout(@),
                        !.codePromise = [state |-> "rejected", value |-> Null]]
    ELSE server

InitOAuth ==
    /\ fnIn = [fn |-> "startCallbackServer", event |-> "listening"]
    /\ fnOut = Some(listeningServer)
    /\ LoopIdle

Handled(server, event) ==
    /\ fnOut' = Some(server)
    /\ fnIn' = [fn |-> "startCallbackServer", event |-> event]
    /\ UNCHANGED loopVars

\* a request reaches the server; server.close() stops new connections only,
\* a connection that is already open is still served
Request ==
    /\ fnIn.fn = "startCallbackServer"
    /\ Len(Val(fnOut).served) < MaxRequests
    /\ \E code \in CodeParams : Handled(onRequest(Val(fnOut), code), "request")

ServerError ==
    /\ fnIn.fn = "startCallbackServer"
    /\ Handled(onError(Val(fnOut)), "error")

TimeoutFires ==
    /\ fnIn.fn = "startCallbackServer"
    /\ Val(fnOut).timer = "armed"
    /\ Handled(onTimeout([Val(fnOut) EXCEPT !.timer = "fired"]), "timeout")

\* line 442: openAuthorizationUrl returns
OpenAuthorizationUrl ==
    /\ fnIn.fn = "startCallbackServer"
    /\ Val(fnOut).flow = "opening"
    /\ Handled([Val(fnOut) EXCEPT !.flow = "awaiting"], "opened")

\* lines 442, 447-449: openAuthorizationUrl throws; close() and rethrow
OpenAuthorizationUrlFails ==
    /\ fnIn.fn = "startCallbackServer"
    /\ Val(fnOut).flow = "opening"
    /\ Handled(close([Val(fnOut) EXCEPT !.flow = "threw"]), "open failed")

\* line 443: `await codePromise` continues once the promise is resolved
AwaitCode ==
    /\ fnIn.fn = "startCallbackServer"
    /\ Val(fnOut).flow = "awaiting"
    /\ Val(fnOut).codePromise.state = "resolved"
    /\ Handled([Val(fnOut) EXCEPT !.flow = "exchanging"], "code")

\* lines 443, 447-449: `await codePromise` throws once the promise is rejected
AwaitCodeThrows ==
    /\ fnIn.fn = "startCallbackServer"
    /\ Val(fnOut).flow = "awaiting"
    /\ Val(fnOut).codePromise.state = "rejected"
    /\ Handled(close([Val(fnOut) EXCEPT !.flow = "threw"]), "rejected")

\* lines 444-446: the code is exchanged and the token saved
ExchangeCodeForToken ==
    /\ fnIn.fn = "startCallbackServer"
    /\ Val(fnOut).flow = "exchanging"
    /\ Handled([Val(fnOut) EXCEPT !.flow = "returned"], "token")

\* lines 444-449: exchangeCodeForToken or saveToken throws
ExchangeCodeForTokenFails ==
    /\ fnIn.fn = "startCallbackServer"
    /\ Val(fnOut).flow = "exchanging"
    /\ Handled(close([Val(fnOut) EXCEPT !.flow = "threw"]), "exchange failed")

EnsureAuthenticatedStep ==
    \/ OpenAuthorizationUrl
    \/ OpenAuthorizationUrlFails
    \/ AwaitCode
    \/ AwaitCodeThrows
    \/ ExchangeCodeForToken
    \/ ExchangeCodeForTokenFails

NextOAuth ==
    \/ Request
    \/ ServerError
    \/ TimeoutFires
    \/ OpenAuthorizationUrl
    \/ OpenAuthorizationUrlFails
    \/ AwaitCode
    \/ AwaitCodeThrows
    \/ ExchangeCodeForToken
    \/ ExchangeCodeForTokenFails

SpecOAuth == InitOAuth /\ [][NextOAuth]_vars

\* an armed timer fires, and a continuation of ensureAuthenticated that can
\* run does run; requests and server errors are up to the environment
FairSpecOAuth ==
    SpecOAuth /\ WF_vars(TimeoutFires) /\ WF_vars(EnsureAuthenticatedStep)

OAuthServer == fnIn.fn = "startCallbackServer"

\* C35: codePromise always eventually settles and settles at most once: it
\* resolves with the code of the first request that carries a code, rejects on
\* a server error, and settles when the 5-minute timeout fires first, so that
\* ensureAuthenticated does not wait on it forever; requests after settlement
\* do not change the outcome
C35_CodePromiseAlwaysSettles ==
    /\ [][OAuthServer /\ Val(fnOut).codePromise # Pending =>
              Val(fnOut').codePromise = Val(fnOut).codePromise]_vars
    /\ [][OAuthServer /\ Val(fnOut').codePromise # Val(fnOut).codePromise =>
              \/ /\ fnIn'.event = "request"
                 /\ Val(fnOut').codePromise.state = "resolved"
                 /\ \E i \in 1..Len(Val(fnOut').served) :
                        /\ Val(fnOut').served[i] =
                              [code |-> Val(fnOut').codePromise.value, status |-> 200]
                        /\ \A j \in 1..(i - 1) : ~Truthy(Val(fnOut').served[j].code)
              \/ /\ fnIn'.event \in {"error", "timeout"}
                 /\ Val(fnOut').codePromise.state = "rejected"]_vars
    /\ <>(OAuthServer /\ Val(fnOut).codePromise # Pending)
    /\ (OAuthServer /\ Val(fnOut).timer = "fired") ~>
          (OAuthServer /\ Val(fnOut).codePromise # Pending)
    /\ <>(OAuthServer /\ Val(fnOut).flow \in {"returned", "threw"})

(***************************************************************************)
(* withRetry (llm/client.ts 209-252).  fnOut holds the state of one call   *)
(* of withRetry, fnIn the step taken last.                                  *)
(***************************************************************************)
MaxRetriesOption == 3

DefaultMaxRetries == 3

\* the status of an error thrown by fn: none, or an HTTP status
ErrorStatuses == {Null, Some(400), Some(401), Some(429), Some(500), Some(503)}

AuthTypes == {"none", "api-key", "oauth"}

\* the token refresh is tried on every attempt that fails with 401
retryDecisionRefreshOnEveryAttempt(status, auth, attempt) ==
    IF status = Some(429) THEN "backoff"
    ELSE IF status = Some(401) /\ auth = "oauth" THEN "refresh"
    ELSE IF ~IsNull(status) /\ Val(status) >= 500 THEN "backoff"
    ELSE "throw"

\* lines 221-247: what the catch block does with an error of the given status
retryDecision(status, auth, attempt) ==
    IF status = Some(429) THEN "backoff"
    ELSE IF status = Some(401) /\ auth = "oauth" /\ attempt = 0 THEN "refresh"
    ELSE IF ~IsNull(status) /\ Val(status) >= 500 THEN "backoff"
    ELSE "throw"

\* the outcome of one call of fn
Success == [threw |-> FALSE, status |-> Null]

Failure(status) == [threw |-> TRUE, status |-> status]

\* the error thrown by the n-th call of fn
FnError(status, n) == [status |-> status, call |-> n]

MaxRetriesExceeded == [status |-> Null, call |-> 0]

ResolvedWith(n) == [kind |-> "returned", call |-> n, error |-> Null]

RejectedWith(error) == [kind |-> "threw", call |-> error.call, error |-> Some(error)]

\* lines 213-214
retryStart(maxRetriesOption, auth) ==
    [maxRetries |-> IF IsNull(maxRetriesOption) THEN DefaultMaxRetries
                    ELSE Val(maxRetriesOption),
     auth |-> auth, attempt |-> 0, calls |-> <<>>, refreshes |-> 0,
     lastError |-> Null, at |-> "loop", settlement |-> Null]

InitRetry ==
    /\ \E maxRetriesOption \in {Null} \cup {Some(n) : n \in 0..MaxRetriesOption} :
          \E auth \in AuthTypes :
             fnOut = Some(retryStart(maxRetriesOption, auth))
    /\ fnIn = [fn |-> "withRetry", step |-> "start"]
    /\ LoopIdle

RetryStep(next, step) ==
    /\ fnOut' = Some(next)
    /\ fnIn' = [fn |-> "withRetry", step |-> step]
    /\ UNCHANGED loopVars

\* line 218: fn resolves and its result is returned
FnReturns ==
    /\ fnIn.fn = "withRetry"
    /\ Val(fnOut).at = "loop"
    /\ Val(fnOut).attempt < Val(fnOut).maxRetries
    /\ LET w == Val(fnOut)
           n == Len(w.calls) + 1
       IN  RetryStep([w EXCEPT !.calls = Append(@, Success), !.at = "settled",
                               !.settlement = Some(ResolvedWith(n))], "returned")

\* lines 219-247: fn rejects
FnThrows ==
    /\ fnIn.fn = "withRetry"
    /\ Val(fnOut).at = "loop"
    /\ Val(fnOut).attempt < Val(fnOut).maxRetries
    /\ \E status \in ErrorStatuses :
          LET w == Val(fnOut)
              err == FnError(status, Len(w.calls) + 1)
              decision == retryDecision(status, w.auth, w.attempt)
              failed == [w EXCEPT !.calls = Append(@, Failure(status)), !.lastError = Some(err)]
          IN  IF decision = "throw"
              THEN RetryStep([failed EXCEPT !.at = "settled",
                                            !.settlement = Some(RejectedWith(err))], "threw")
              ELSE RetryStep([failed EXCEPT !.at = decision], decision)

\* lines 223-227, 241-244: the wait ends, `continue`
BackoffElapsed ==
    /\ fnIn.fn = "withRetry"
    /\ Val(fnOut).at = "backoff"
    /\ RetryStep([Val(fnOut) EXCEPT !.attempt = @ + 1, !.at = "loop"], "continue")

\* lines 231-235: refreshAccessToken and saveToken succeed, `continue`
TokenRefreshed ==
    /\ fnIn.fn = "withRetry"
    /\ Val(fnOut).at = "refresh"
    /\ RetryStep([Val(fnOut) EXCEPT !.refreshes = @ + 1, !.attempt = @ + 1,
                                    !.at = "loop"], "refreshed")

\* lines 236-238: the refresh throws, lastError is rethrown
TokenRefreshFails ==
    /\ fnIn.fn = "withRetry"
    /\ Val(fnOut).at = "refresh"
    /\ LET w == Val(fnOut)
       IN  RetryStep([w EXCEPT !.refreshes = @ + 1, !.at = "settled",
                               !.settlement = Some(RejectedWith(Val(w.lastError)))],
                     "refresh failed")

\* lines 217, 251: the loop condition fails
RetriesExhausted ==
    /\ fnIn.fn = "withRetry"
    /\ Val(fnOut).at = "loop"
    /\ ~(Val(fnOut).attempt < Val(fnOut).maxRetries)
    /\ LET w == Val(fnOut)
       IN  RetryStep([w EXCEPT !.at = "settled",
                               !.settlement =
                                   Some(RejectedWith(IF IsNull(w.lastError) THEN MaxRetriesExceeded
                                              ELSE Val(w.lastError)))],
                     "exhausted")

NextRetry ==
    \/ FnReturns
    \/ FnThrows
    \/ BackoffElapsed
    \/ TokenRefreshed
    \/ TokenRefreshFails
    \/ RetriesExhausted

SpecRetry == InitRetry /\ [][NextRetry]_vars

\* fn, the waits and the token refresh all settle
FairSpecRetry == SpecRetry /\ WF_vars(NextRetry)

Retrying == fnIn.fn = "withRetry"

RetrySettled == Retrying /\ Val(fnOut).at = "settled"

\* the i-th call of fn threw an error that is neither a 429, nor a status of
\* 500 or more, nor a 401 on the first attempt under OAuth
NotRetried(w, i) ==
    LET status == w.calls[i].status
    IN  /\ w.calls[i].threw
        /\ status # Some(429)
        /\ ~(~IsNull(status) /\ Val(status) >= 500)
        /\ ~(status = Some(401) /\ i = 1 /\ w.auth = "oauth")

\* C37: withRetry calls fn at most maxRetries times (default 3) and always
\* settles; it returns the result of the first successful call without a
\* further call; an error that is not retried is rethrown after that call
\* with no further call; the token refresh is attempted at most once; after
\* maxRetries failed calls it rejects with the last error
C37_BoundedRetry ==
    /\ [](Retrying =>
            LET w == Val(fnOut)
                n == Len(w.calls)
            IN  /\ n <= w.maxRetries
                /\ n \in {w.attempt, w.attempt + 1}
                /\ w.refreshes <= 1
                /\ \A i \in 1..n :
                       /\ ~w.calls[i].threw =>
                              i = n /\ w.settlement = Some(ResolvedWith(i))
                       /\ NotRetried(w, i) =>
                              /\ i = n
                              /\ w.settlement =
                                    Some(RejectedWith(FnError(w.calls[i].status, i)))
                /\ w.at = "settled" /\ n = w.maxRetries /\ n > 0 /\ w.calls[n].threw =>
                       w.settlement = Some(RejectedWith(FnError(w.calls[n].status, n)))
                /\ w.at = "settled" <=> ~IsNull(w.settlement))
    /\ [][Retrying /\ Val(fnOut).at = "settled" => fnOut' = fnOut]_vars
    /\ <>RetrySettled

\* under OAuth: a 401 and a successful refresh, a 429, then a 500 on the third
\* and last call, which is the error withRetry rejects with
C37_Witness ==
    /\ RetrySettled
    /\ Val(fnOut).maxRetries = 3
    /\ Val(fnOut).calls = <<Failure(Some(401)), Failure(Some(429)), Failure(Some(500))>>
    /\ Val(fnOut).refreshes = 1
    /\ Val(fnOut).settlement = Some(RejectedWith(FnError(Some(500), 3)))

====
